---- MODULE Spec2Model ----
(***************************************************************************)
(* Model of MuJoCoController (src/mujoco/mujococontroller.py): the shared  *)
(* control state, the re-entrant lock, the physics loop, the viewer loop,  *)
(* the lifecycle operations and the per-servo facade.                      *)
(*                                                                         *)
(* Units.  Velocities are integers in units of pi/30 rad/s, so that the    *)
(* interpolation anchors pi/30 and 61*pi/30 of set_velocity are 1 and 61.  *)
(* The timestep is in milliseconds (round(..., 3) of a value in seconds    *)
(* is a whole number of milliseconds).  Positions are in units of          *)
(* (pi/30 rad/s) * 1 ms, so that target_velocity * timestep is exact.      *)
(***************************************************************************)
EXTENDS Integers, FiniteSets

VARIABLES
    running,          \* self.running (threading.Event)
    pcSim,            \* position of the 'Simulation Thread'
    pcView,           \* position of the 'Viewer Thread'
    viewerOpen,       \* viewer.is_running() of the passive viewer
    show_viewer,      \* self.show_viewer
    lockOwner,        \* thread holding self.lock (NoThread when free)
    pc,               \* position of each caller thread
    torque_enabled,   \* self.torque_enabled
    target_velocity,  \* self.target_velocity
    target_position,  \* self.target_position
    timestep,         \* self.timestep, in ms
    qpos,             \* self.data.qpos
    ctrl,             \* self.data.ctrl
    lastCall,         \* history: the most recent completed call and its result
    lastTorqueWrite,  \* history: value last asked for by set_torque/factory/reboot
    unlocked,         \* history: ControlState accesses made without the lock
    staleTicks,       \* history: ticks completed since the run flag was cleared
    launches          \* history: how often each loop thread has been launched

vars == <<running, pcSim, pcView, viewerOpen, show_viewer, lockOwner, pc,
          torque_enabled, target_velocity, target_position, timestep,
          qpos, ctrl, lastCall, lastTorqueWrite, unlocked, staleTicks,
          launches>>

ControlState == <<torque_enabled, target_velocity, target_position, timestep>>

-----------------------------------------------------------------------------
(* Bounds of the model *)

NumServos == 2
NumCallers == 1
MaxAbsPos == 400

(* Program constants *)

VMin == 1
VMax == 61
TMax == 20
TMin == 2
InitTimestep == 2
HomePos == 0

Servos == 0 .. (NumServos - 1)
Callers == 1 .. NumCallers
SimThread == 0
NoThread == -1

Abs(x) == IF x < 0 THEN -x ELSE x
Min(a, b) == IF a < b THEN a ELSE b
Max(a, b) == IF a > b THEN a ELSE b

-----------------------------------------------------------------------------
(* Pure functions *)

\* round half to even of the rational n/d (d > 0), as round(x, 3) does on ms
RoundHalfEven(n, d) ==
    LET q == n \div d
        r == n % d
    IN  IF 2 * r < d THEN q
        ELSE IF 2 * r > d THEN q + 1
        ELSE IF q % 2 = 0 THEN q ELSE q + 1

\* Interp with the two anchors joined by a line that is not clamped
Interp_Extrapolated(velocity) ==
    RoundHalfEven(TMax * (VMax - VMin) + (velocity - VMin) * (TMin - TMax),
                  VMax - VMin)

\* round(np.interp(velocity, [pi/30, 61*pi/30], [0.02, 0.002]), 3), in ms
Interp(velocity) ==
    IF velocity <= VMin THEN TMax
    ELSE IF velocity >= VMax THEN TMin
    ELSE RoundHalfEven(TMax * (VMax - VMin) + (velocity - VMin) * (TMin - TMax),
                       VMax - VMin)

\* a clip that only bounds the magnitude of the step, not its sign
Clip_OneSided(x, lo, hi) == IF x >= 0 THEN hi ELSE lo

\* np.clip(x, lo, hi) == minimum(maximum(x, lo), hi), also when lo > hi
Clip(x, lo, hi) == Min(Max(x, lo), hi)

\* lines 78-84 for one servo: the new control command
Command(servo) ==
    LET current_pos == qpos[servo]
        max_step == target_velocity[servo] * timestep
        diff == target_position[servo] - current_pos
        step == Clip(diff, -max_step, max_step)
    IN  current_pos + step

\* Python list indexing: -len..-1 wrap around, anything else out of range raises
ValidIndex(servo) == servo \in (-NumServos) .. (NumServos - 1)
Idx(servo) == IF servo < 0 THEN servo + NumServos ELSE servo

\* booleans are recorded as 0/1 in the call history
B2I(b) == IF b THEN 1 ELSE 0

NoCall == [op |-> "none", servo |-> 0, arg |-> 0, outcome |-> "ok", ret |-> 0]
Call(op, servo, arg, outcome, ret) ==
    [op |-> op, servo |-> servo, arg |-> arg, outcome |-> outcome, ret |-> ret]

\* the record of unlocked accesses after thread t touches `field`
Touch(t, who, field) ==
    IF lockOwner = t THEN unlocked ELSE unlocked \cup {<<who, field>>}

-----------------------------------------------------------------------------
(* State after construction: __init__ has set the fields and called _start *)

Init ==
    /\ running = TRUE
    /\ pcSim = "check"
    /\ pcView = "begin"
    /\ viewerOpen = TRUE
    /\ show_viewer \in BOOLEAN
    /\ lockOwner = NoThread
    /\ pc = [c \in Callers |-> "idle"]
    /\ torque_enabled = [s \in Servos |-> FALSE]
    /\ target_velocity = [s \in Servos |-> 0]
    /\ target_position = [s \in Servos |-> 0]
    /\ timestep = InitTimestep
    /\ qpos = [s \in Servos |-> HomePos]
    /\ ctrl = [s \in Servos |-> HomePos]
    /\ lastCall = NoCall
    /\ lastTorqueWrite = [s \in Servos |-> FALSE]
    /\ unlocked = {}
    /\ staleTicks = 0
    /\ launches = [sim |-> 1, viewer |-> 1]

histVars == <<lastTorqueWrite, unlocked, staleTicks, launches>>

-----------------------------------------------------------------------------
(* Lifecycle *)

ThreadStarted(p) == p # "new"

\* _start without the test of the run flag
Start_NoTest(c) ==
    /\ pc[c] = "idle"
    /\ running' = TRUE
    /\ IF ThreadStarted(pcSim)
       THEN /\ lastCall' = Call("_start", 0, 0, "error", 0)
            /\ UNCHANGED <<pcSim, pcView, launches>>
       ELSE /\ pcSim' = "check"
            /\ pcView' = "begin"
            /\ launches' = [sim |-> launches.sim + 1,
                            viewer |-> launches.viewer + 1]
            /\ lastCall' = Call("_start", 0, 0, "ok", 0)
    /\ UNCHANGED <<viewerOpen, show_viewer, lockOwner, pc, ControlState,
                   qpos, ctrl, lastTorqueWrite, unlocked, staleTicks>>

\* _start(): threading.Thread.start() raises RuntimeError on a started thread
Start(c) ==
    /\ pc[c] = "idle"
    /\ IF running
       THEN /\ lastCall' = Call("_start", 0, 0, "ok", 0)
            /\ UNCHANGED <<running, pcSim, pcView, launches>>
       ELSE /\ running' = TRUE
            /\ IF ThreadStarted(pcSim)
               THEN /\ lastCall' = Call("_start", 0, 0, "error", 0)
                    /\ UNCHANGED <<pcSim, pcView, launches>>
               ELSE /\ pcSim' = "check"
                    /\ pcView' = "begin"
                    /\ launches' = [sim |-> launches.sim + 1,
                                    viewer |-> launches.viewer + 1]
                    /\ lastCall' = Call("_start", 0, 0, "ok", 0)
    /\ UNCHANGED <<viewerOpen, show_viewer, lockOwner, pc, ControlState,
                   qpos, ctrl, lastTorqueWrite, unlocked, staleTicks>>

\* close(), lines 124-127: test and clear the run flag, then the grace sleep
CloseBegin(c) ==
    /\ pc[c] = "idle"
    /\ IF running
       THEN /\ running' = FALSE
            /\ pc' = [pc EXCEPT ![c] = "close_join_sim"]
            /\ staleTicks' = 0
            /\ UNCHANGED lastCall
       ELSE /\ lastCall' = Call("close", 0, 0, "ok", 0)
            /\ UNCHANGED <<running, pc, staleTicks>>
    /\ UNCHANGED <<pcSim, pcView, viewerOpen, show_viewer, lockOwner,
                   ControlState, qpos, ctrl, lastTorqueWrite, unlocked,
                   launches>>

\* close(), lines 128-129: join(timeout=1.0) returns when the thread has
\* ended or when the timeout has elapsed
CloseJoinSim(c) ==
    /\ pc[c] = "close_join_sim"
    /\ pc' = [pc EXCEPT ![c] = "close_join_viewer"]
    /\ UNCHANGED <<running, pcSim, pcView, viewerOpen, show_viewer, lockOwner,
                   ControlState, qpos, ctrl, lastCall, histVars>>

\* close(), lines 131-132, and the return (ret 1: closed, ret 0: no-op)
CloseJoinViewer(c) ==
    /\ pc[c] = "close_join_viewer"
    /\ pc' = [pc EXCEPT ![c] = "idle"]
    /\ lastCall' = Call("close", 0, 0, "ok", 1)
    /\ UNCHANGED <<running, pcSim, pcView, viewerOpen, show_viewer, lockOwner,
                   ControlState, qpos, ctrl, histVars>>

-----------------------------------------------------------------------------
(* Physics loop *)

\* the loop test as `while True`
SimCheck_Forever ==
    /\ pcSim = "check"
    /\ pcSim' = "pace"
    /\ UNCHANGED <<running, pcView, viewerOpen, show_viewer, lockOwner, pc,
                   ControlState, qpos, ctrl, lastCall, histVars>>

\* line 93: while self.running.is_set()
SimCheck ==
    /\ pcSim = "check"
    /\ pcSim' = IF running THEN "pace" ELSE "done"
    /\ UNCHANGED <<running, pcView, viewerOpen, show_viewer, lockOwner, pc,
                   ControlState, qpos, ctrl, lastCall, histVars>>

\* lines 94-98: elapsed_time >= self.timestep, read without the lock
SimPaceTick ==
    /\ pcSim = "pace"
    /\ pcSim' = "acquire"
    /\ unlocked' = Touch(SimThread, "sim", "timestep")
    /\ UNCHANGED <<running, pcView, viewerOpen, show_viewer, lockOwner, pc,
                   ControlState, qpos, ctrl, lastCall, lastTorqueWrite,
                   staleTicks, launches>>

\* lines 100-101: not yet time, sleep a fraction of self.timestep
SimPaceSleep ==
    /\ pcSim = "pace"
    /\ pcSim' = "check"
    /\ unlocked' = Touch(SimThread, "sim", "timestep")
    /\ UNCHANGED <<running, pcView, viewerOpen, show_viewer, lockOwner, pc,
                   ControlState, qpos, ctrl, lastCall, lastTorqueWrite,
                   staleTicks, launches>>

\* line 75: with self.lock
SimAcquire ==
    /\ pcSim = "acquire"
    /\ lockOwner = NoThread
    /\ lockOwner' = SimThread
    /\ pcSim' = "cmd"
    /\ UNCHANGED <<running, pcView, viewerOpen, show_viewer, pc,
                   ControlState, qpos, ctrl, lastCall, histVars>>

\* a tick that commands every servo, whatever its torque flag
SimCommands_AllServos ==
    /\ pcSim = "cmd"
    /\ \A s \in Servos : Abs(Command(s)) <= MaxAbsPos
    /\ ctrl' = [s \in Servos |-> Command(s)]
    /\ unlocked' = Touch(SimThread, "sim", "targets")
    /\ pcSim' = "mj"
    /\ UNCHANGED <<running, pcView, viewerOpen, show_viewer, lockOwner, pc,
                   ControlState, qpos, lastCall, lastTorqueWrite, staleTicks,
                   launches>>

\* lines 76-84: the control command of every torque-enabled servo
SimCommands ==
    /\ pcSim = "cmd"
    /\ \A s \in Servos : torque_enabled[s] => Abs(Command(s)) <= MaxAbsPos
    /\ ctrl' = [s \in Servos |->
                  IF torque_enabled[s] THEN Command(s) ELSE ctrl[s]]
    /\ unlocked' = Touch(SimThread, "sim", "targets")
    /\ pcSim' = "mj"
    /\ UNCHANGED <<running, pcView, viewerOpen, show_viewer, lockOwner, pc,
                   ControlState, qpos, lastCall, lastTorqueWrite, staleTicks,
                   launches>>

\* line 86, mj_step returns: a position-controlled backend that has reached
\* the commanded positions; then the lock is released and last_time is reset
SimMjStep ==
    /\ pcSim = "mj"
    /\ qpos' = ctrl
    /\ lockOwner' = NoThread
    /\ pcSim' = "check"
    /\ staleTicks' = IF running THEN staleTicks ELSE staleTicks + 1
    /\ UNCHANGED <<running, pcView, viewerOpen, show_viewer, pc,
                   ControlState, ctrl, lastCall, lastTorqueWrite, unlocked,
                   launches>>

\* line 86, mj_step raises: the with block releases the lock and the
\* exception ends the thread
SimMjStepFail ==
    /\ pcSim = "mj"
    /\ lockOwner' = NoThread
    /\ pcSim' = "crashed"
    /\ UNCHANGED <<running, pcView, viewerOpen, show_viewer, pc,
                   ControlState, qpos, ctrl, lastCall, histVars>>

SimLoop ==
    \/ SimCheck
    \/ SimPaceTick
    \/ SimPaceSleep
    \/ SimAcquire
    \/ SimCommands
    \/ SimMjStep
    \/ SimMjStepFail

-----------------------------------------------------------------------------
(* Viewer loop *)

\* lines 107-109
ViewerBegin ==
    /\ pcView = "begin"
    /\ pcView' = IF show_viewer THEN "check" ELSE "done"
    /\ UNCHANGED <<running, pcSim, viewerOpen, show_viewer, lockOwner, pc,
                   ControlState, qpos, ctrl, lastCall, histVars>>

\* a viewer loop that clears the run flag when it ends
ViewerCheck_ClearsFlag ==
    /\ pcView = "check"
    /\ pcView' = IF running /\ viewerOpen THEN "pace" ELSE "done"
    /\ running' = (running /\ viewerOpen)
    /\ UNCHANGED <<pcSim, viewerOpen, show_viewer, lockOwner, pc,
                   ControlState, qpos, ctrl, lastCall, histVars>>

\* line 110: while self.running.is_set() and viewer.is_running()
ViewerCheck ==
    /\ pcView = "check"
    /\ pcView' = IF running /\ viewerOpen THEN "pace" ELSE "done"
    /\ UNCHANGED <<running, pcSim, viewerOpen, show_viewer, lockOwner, pc,
                   ControlState, qpos, ctrl, lastCall, histVars>>

\* lines 111-118: viewer.sync() or a sleep, paced by self.update_time
ViewerPace ==
    /\ pcView = "pace"
    /\ pcView' = "check"
    /\ UNCHANGED <<running, pcSim, viewerOpen, show_viewer, lockOwner, pc,
                   ControlState, qpos, ctrl, lastCall, histVars>>

\* the user closes the viewer window: viewer.is_running() turns false
ViewerWindowClosed ==
    /\ pcView \in {"check", "pace"}
    /\ viewerOpen
    /\ viewerOpen' = FALSE
    /\ UNCHANGED <<running, pcSim, pcView, show_viewer, lockOwner, pc,
                   ControlState, qpos, ctrl, lastCall, histVars>>

ViewerLoop ==
    \/ ViewerBegin
    \/ ViewerCheck
    \/ ViewerPace
    \/ ViewerWindowClosed

-----------------------------------------------------------------------------
(* Facade: every operation is `with self.lock:` followed by its body *)

\* with self.lock: the caller blocks until the lock is free
Acquire(c) ==
    /\ pc[c] = "idle"
    /\ lockOwner = NoThread
    /\ lockOwner' = c
    /\ pc' = [pc EXCEPT ![c] = "locked"]
    /\ UNCHANGED <<running, pcSim, pcView, viewerOpen, show_viewer,
                   ControlState, qpos, ctrl, lastCall, histVars>>

\* with self.lock, in two steps: the caller reaches the statement and waits
Wait(c) ==
    /\ pc[c] = "idle"
    /\ pc' = [pc EXCEPT ![c] = "waiting"]
    /\ UNCHANGED <<running, pcSim, pcView, viewerOpen, show_viewer, lockOwner,
                   ControlState, qpos, ctrl, lastCall, histVars>>

\* ... and obtains the lock once no other thread holds it
Enter(c) ==
    /\ pc[c] = "waiting"
    /\ lockOwner = NoThread
    /\ lockOwner' = c
    /\ pc' = [pc EXCEPT ![c] = "locked"]
    /\ UNCHANGED <<running, pcSim, pcView, viewerOpen, show_viewer,
                   ControlState, qpos, ctrl, lastCall, histVars>>

\* leaving the with block, by return or by exception
Release(c) ==
    /\ lockOwner' = NoThread
    /\ pc' = [pc EXCEPT ![c] = "idle"]

InBody(c) == pc[c] = "locked" /\ lockOwner = c

\* factory/reboot that leave the torque flag as it is
ClearTorque_NoWrite(c, op, servo) ==
    /\ InBody(c)
    /\ IF ValidIndex(servo)
       THEN /\ lastTorqueWrite' = [lastTorqueWrite EXCEPT ![Idx(servo)] = FALSE]
            /\ lastCall' = Call(op, servo, 0, "ok", 0)
       ELSE /\ lastCall' = Call(op, servo, 0, "error", 0)
            /\ UNCHANGED lastTorqueWrite
    /\ unlocked' = Touch(c, "caller", "torque_enabled")
    /\ Release(c)
    /\ UNCHANGED <<running, pcSim, pcView, viewerOpen, show_viewer,
                   ControlState, qpos, ctrl, staleTicks, launches>>

\* factory(servo) and reboot(servo), lines 141-142 and 151-152
ClearTorque(c, op, servo) ==
    /\ InBody(c)
    /\ IF ValidIndex(servo)
       THEN /\ torque_enabled' = [torque_enabled EXCEPT ![Idx(servo)] = FALSE]
            /\ lastTorqueWrite' = [lastTorqueWrite EXCEPT ![Idx(servo)] = FALSE]
            /\ lastCall' = Call(op, servo, 0, "ok", 0)
       ELSE /\ lastCall' = Call(op, servo, 0, "error", 0)
            /\ UNCHANGED <<torque_enabled, lastTorqueWrite>>
    /\ unlocked' = Touch(c, "caller", "torque_enabled")
    /\ Release(c)
    /\ UNCHANGED <<running, pcSim, pcView, viewerOpen, show_viewer,
                   target_velocity, target_position, timestep, qpos, ctrl,
                   staleTicks, launches>>

\* a factory reset that also forgets the stored target position
Factory_ResetsTarget(c, servo) ==
    /\ InBody(c)
    /\ IF ValidIndex(servo)
       THEN /\ torque_enabled' = [torque_enabled EXCEPT ![Idx(servo)] = FALSE]
            /\ target_position' = [target_position EXCEPT ![Idx(servo)] = 0]
            /\ lastTorqueWrite' = [lastTorqueWrite EXCEPT ![Idx(servo)] = FALSE]
            /\ lastCall' = Call("factory", servo, 0, "ok", 0)
       ELSE /\ lastCall' = Call("factory", servo, 0, "error", 0)
            /\ UNCHANGED <<torque_enabled, target_position, lastTorqueWrite>>
    /\ unlocked' = Touch(c, "caller", "torque_enabled")
    /\ Release(c)
    /\ UNCHANGED <<running, pcSim, pcView, viewerOpen, show_viewer,
                   target_velocity, timestep, qpos, ctrl, staleTicks, launches>>

Factory(c, servo) == ClearTorque(c, "factory", servo)

Reboot(c, servo) == ClearTorque(c, "reboot", servo)

\* set_torque that recomputes the timestep from the servo's own velocity
SetTorque_OwnTimestep(c, servo, value) ==
    /\ InBody(c)
    /\ IF ValidIndex(servo)
       THEN /\ torque_enabled' = [torque_enabled EXCEPT ![Idx(servo)] = value]
            /\ lastTorqueWrite' = [lastTorqueWrite EXCEPT ![Idx(servo)] = value]
            /\ timestep' = Interp(target_velocity[Idx(servo)])
            /\ lastCall' = Call("set_torque", servo, B2I(value), "ok", 0)
       ELSE /\ lastCall' = Call("set_torque", servo, B2I(value), "error", 0)
            /\ UNCHANGED <<torque_enabled, lastTorqueWrite, timestep>>
    /\ unlocked' = Touch(c, "caller", "torque_enabled")
    /\ Release(c)
    /\ UNCHANGED <<running, pcSim, pcView, viewerOpen, show_viewer,
                   target_velocity, target_position, qpos, ctrl,
                   staleTicks, launches>>

\* set_torque(servo, value), lines 162-163
SetTorque(c, servo, value) ==
    /\ InBody(c)
    /\ IF ValidIndex(servo)
       THEN /\ torque_enabled' = [torque_enabled EXCEPT ![Idx(servo)] = value]
            /\ lastTorqueWrite' = [lastTorqueWrite EXCEPT ![Idx(servo)] = value]
            /\ lastCall' = Call("set_torque", servo, B2I(value), "ok", 0)
       ELSE /\ lastCall' = Call("set_torque", servo, B2I(value), "error", 0)
            /\ UNCHANGED <<torque_enabled, lastTorqueWrite>>
    /\ unlocked' = Touch(c, "caller", "torque_enabled")
    /\ Release(c)
    /\ UNCHANGED <<running, pcSim, pcView, viewerOpen, show_viewer,
                   target_velocity, target_position, timestep, qpos, ctrl,
                   staleTicks, launches>>

\* get_torque(servo), lines 175-176
GetTorque(c, servo) ==
    /\ InBody(c)
    /\ lastCall' = IF ValidIndex(servo)
                   THEN Call("get_torque", servo, 0, "ok",
                             B2I(torque_enabled[Idx(servo)]))
                   ELSE Call("get_torque", servo, 0, "error", 0)
    /\ unlocked' = Touch(c, "caller", "torque_enabled")
    /\ Release(c)
    /\ UNCHANGED <<running, pcSim, pcView, viewerOpen, show_viewer,
                   ControlState, qpos, ctrl, lastTorqueWrite, staleTicks,
                   launches>>

\* get_force whose exception leaves the lock held
GetForce_KeepsLock(c, servo) ==
    /\ InBody(c)
    /\ IF ValidIndex(servo) /\ torque_enabled[Idx(servo)]
       THEN /\ lastCall' = Call("get_force", servo, 0, "ok", 0)
            /\ Release(c)
       ELSE /\ lastCall' = Call("get_force", servo, 0, "error", 0)
            /\ pc' = [pc EXCEPT ![c] = "idle"]
            /\ UNCHANGED lockOwner
    /\ unlocked' = Touch(c, "caller", "torque_enabled")
    /\ UNCHANGED <<running, pcSim, pcView, viewerOpen, show_viewer,
                   ControlState, qpos, ctrl, lastTorqueWrite, staleTicks,
                   launches>>

\* get_force(servo), lines 188-194: the sensed value itself is not modelled
GetForce(c, servo) ==
    /\ InBody(c)
    /\ lastCall' = IF ValidIndex(servo) /\ torque_enabled[Idx(servo)]
                   THEN Call("get_force", servo, 0, "ok", 0)
                   ELSE Call("get_force", servo, 0, "error", 0)
    /\ unlocked' = Touch(c, "caller", "torque_enabled")
    /\ Release(c)
    /\ UNCHANGED <<running, pcSim, pcView, viewerOpen, show_viewer,
                   ControlState, qpos, ctrl, lastTorqueWrite, staleTicks,
                   launches>>

\* SetVelocity with the timestep recomputed before the torque test
SetVelocity_TimestepFirst(c, servo, velocity) ==
    /\ InBody(c)
    /\ timestep' = Interp(velocity)
    /\ IF ValidIndex(servo) /\ ~torque_enabled[Idx(servo)]
       THEN /\ target_velocity' =
                   [target_velocity EXCEPT ![Idx(servo)] = velocity]
            /\ lastCall' = Call("set_velocity", servo, velocity, "ok", 0)
       ELSE /\ lastCall' = Call("set_velocity", servo, velocity, "error", 0)
            /\ UNCHANGED target_velocity
    /\ unlocked' = Touch(c, "caller", "target_velocity")
    /\ Release(c)
    /\ UNCHANGED <<running, pcSim, pcView, viewerOpen, show_viewer,
                   torque_enabled, target_position, qpos, ctrl,
                   lastTorqueWrite, staleTicks, launches>>

\* set_velocity(servo, velocity), lines 204-209
SetVelocity(c, servo, velocity) ==
    /\ InBody(c)
    /\ IF ValidIndex(servo) /\ ~torque_enabled[Idx(servo)]
       THEN /\ timestep' = Interp(velocity)
            /\ target_velocity' =
                   [target_velocity EXCEPT ![Idx(servo)] = velocity]
            /\ lastCall' = Call("set_velocity", servo, velocity, "ok", 0)
       ELSE /\ lastCall' = Call("set_velocity", servo, velocity, "error", 0)
            /\ UNCHANGED <<timestep, target_velocity>>
    /\ unlocked' = Touch(c, "caller", "target_velocity")
    /\ Release(c)
    /\ UNCHANGED <<running, pcSim, pcView, viewerOpen, show_viewer,
                   torque_enabled, target_position, qpos, ctrl,
                   lastTorqueWrite, staleTicks, launches>>

\* get_velocity(servo), lines 221-222
GetVelocity(c, servo) ==
    /\ InBody(c)
    /\ lastCall' = IF ValidIndex(servo)
                   THEN Call("get_velocity", servo, 0, "ok",
                             target_velocity[Idx(servo)])
                   ELSE Call("get_velocity", servo, 0, "error", 0)
    /\ unlocked' = Touch(c, "caller", "target_velocity")
    /\ Release(c)
    /\ UNCHANGED <<running, pcSim, pcView, viewerOpen, show_viewer,
                   ControlState, qpos, ctrl, lastTorqueWrite, staleTicks,
                   launches>>

\* set_position without the test of the torque flag
SetPosition_NoTest(c, servo, position) ==
    /\ InBody(c)
    /\ IF ValidIndex(servo)
       THEN /\ target_position' =
                   [target_position EXCEPT ![Idx(servo)] = position]
            /\ lastCall' = Call("set_position", servo, position, "ok", 0)
       ELSE /\ lastCall' = Call("set_position", servo, position, "error", 0)
            /\ UNCHANGED target_position
    /\ unlocked' = Touch(c, "caller", "target_position")
    /\ Release(c)
    /\ UNCHANGED <<running, pcSim, pcView, viewerOpen, show_viewer,
                   torque_enabled, target_velocity, timestep, qpos, ctrl,
                   lastTorqueWrite, staleTicks, launches>>

\* set_position(servo, position), lines 232-235
SetPosition(c, servo, position) ==
    /\ InBody(c)
    /\ IF ValidIndex(servo) /\ torque_enabled[Idx(servo)]
       THEN /\ target_position' =
                   [target_position EXCEPT ![Idx(servo)] = position]
            /\ lastCall' = Call("set_position", servo, position, "ok", 0)
       ELSE /\ lastCall' = Call("set_position", servo, position, "error", 0)
            /\ UNCHANGED target_position
    /\ unlocked' = Touch(c, "caller", "target_position")
    /\ Release(c)
    /\ UNCHANGED <<running, pcSim, pcView, viewerOpen, show_viewer,
                   torque_enabled, target_velocity, timestep, qpos, ctrl,
                   lastTorqueWrite, staleTicks, launches>>

\* get_position that reads the backend without taking the lock
GetPosition_NoLock(c, servo) ==
    /\ pc[c] = "idle"
    /\ lastCall' = IF ValidIndex(servo)
                   THEN Call("get_position", servo, 0, "ok", qpos[Idx(servo)])
                   ELSE Call("get_position", servo, 0, "error", 0)
    /\ UNCHANGED <<running, pcSim, pcView, viewerOpen, show_viewer, lockOwner,
                   pc, ControlState, qpos, ctrl, histVars>>

\* get_position(servo), lines 247-248
GetPosition(c, servo) ==
    /\ InBody(c)
    /\ lastCall' = IF ValidIndex(servo)
                   THEN Call("get_position", servo, 0, "ok", qpos[Idx(servo)])
                   ELSE Call("get_position", servo, 0, "error", 0)
    /\ Release(c)
    /\ UNCHANGED <<running, pcSim, pcView, viewerOpen, show_viewer,
                   ControlState, qpos, ctrl, histVars>>

-----------------------------------------------------------------------------
(* Specifications *)

\* the facade calls of caller c with servo arguments SA, velocities V and
\* positions P
Facade(c, SA, V, P) ==
    \/ \E i \in SA : Factory(c, i)
    \/ \E i \in SA : Reboot(c, i)
    \/ \E i \in SA, b \in BOOLEAN : SetTorque(c, i, b)
    \/ \E i \in SA : GetTorque(c, i)
    \/ \E i \in SA : GetForce(c, i)
    \/ \E i \in SA, v \in V : SetVelocity(c, i, v)
    \/ \E i \in SA : GetVelocity(c, i)
    \/ \E i \in SA, p \in P : SetPosition(c, i, p)
    \/ \E i \in SA : GetPosition(c, i)

Lifecycle(c) ==
    \/ Start(c)
    \/ CloseBegin(c)
    \/ CloseJoinSim(c)
    \/ CloseJoinViewer(c)

\* inputs of the complete program
Velocities == {VMax}
Positions == {2 * VMax}

Next ==
    \/ \E c \in Callers : Acquire(c)
    \/ \E c \in Callers : Facade(c, Servos, Velocities, Positions)
    \/ \E c \in Callers : Lifecycle(c)
    \/ SimLoop
    \/ ViewerLoop

Spec == Init /\ [][Next]_vars

\* the facade and the physics loop of a running controller
NextServo ==
    \/ \E c \in Callers : Acquire(c)
    \/ \E c \in Callers : Facade(c, Servos, Velocities, Positions)
    \/ SimLoop

SpecServo == Init /\ [][NextServo]_vars

\* the torque flag under the two loops of a running controller
NextTorque ==
    \/ \E c \in Callers : Acquire(c)
    \/ \E c \in Callers, i \in Servos : Factory(c, i)
    \/ \E c \in Callers, i \in Servos : Reboot(c, i)
    \/ \E c \in Callers, i \in Servos, b \in BOOLEAN : SetTorque(c, i, b)
    \/ \E c \in Callers, i \in Servos : GetTorque(c, i)
    \/ SimLoop
    \/ ViewerLoop

SpecTorque == Init /\ [][NextTorque]_vars

\* the lifecycle, the two loops and contention for the lock
NextLife ==
    \/ \E c \in Callers : Acquire(c)
    \/ \E c \in Callers : GetPosition(c, 0)
    \/ \E c \in Callers : Lifecycle(c)
    \/ SimLoop
    \/ ViewerLoop

SpecLife == Init /\ [][NextLife]_vars

\* set_velocity against the torque flag, over velocities below, at, between,
\* at and above the interpolation anchors
VelocitiesWide == {-VMax, VMin, (VMin + VMax) \div 2, VMax, VMax + 1}

NextVelocity ==
    \/ \E c \in Callers : Acquire(c)
    \/ \E c \in Callers, i \in Servos, b \in BOOLEAN : SetTorque(c, i, b)
    \/ \E c \in Callers, i \in Servos, v \in VelocitiesWide :
           SetVelocity(c, i, v)
    \/ \E c \in Callers, i \in Servos : GetVelocity(c, i)

SpecVelocity == Init /\ [][NextVelocity]_vars

\* one servo driven to and fro: torque, velocity (and with it the timestep)
\* and target of servo 0 are set in any order while the loop ticks
Motion(c, V, P) ==
    \/ \E b \in BOOLEAN : SetTorque(c, 0, b)
    \/ \E v \in V : SetVelocity(c, 0, v)
    \/ \E p \in P : SetPosition(c, 0, p)

VelocitiesConv == {(VMin + VMax) \div 2, VMax}
PositionsConv == {HomePos, HomePos + 5 * VMax}

NextConv ==
    \/ \E c \in Callers : Acquire(c)
    \/ \E c \in Callers : Motion(c, VelocitiesConv, PositionsConv)
    \/ SimLoop

\* the wall clock advances, so the pacing test eventually lets a tick through
FairConv ==
    /\ WF_vars(SimCheck)
    /\ SF_vars(SimPaceTick)
    /\ SF_vars(SimAcquire)
    /\ WF_vars(SimCommands)
    /\ WF_vars(SimMjStep \/ SimMjStepFail)
    /\ \A c \in Callers : WF_vars(Motion(c, VelocitiesConv, PositionsConv))

SpecConv == Init /\ [][NextConv]_vars /\ FairConv

\* as NextConv, with velocities of either sign at the lower anchor
VelocitiesRate == {-VMin, VMin}

NextRate ==
    \/ \E c \in Callers : Acquire(c)
    \/ \E c \in Callers : Motion(c, VelocitiesRate, PositionsConv)
    \/ SimLoop

SpecRate == Init /\ [][NextRate]_vars

\* scheduling: every thread that can take a step eventually takes one; a
\* thread waiting for the lock gets it if the lock is free again and again
FairLife ==
    /\ WF_vars(SimCheck)
    /\ WF_vars(SimPaceTick \/ SimPaceSleep)
    /\ SF_vars(SimAcquire)
    /\ WF_vars(SimCommands)
    /\ WF_vars(SimMjStep \/ SimMjStepFail)
    /\ WF_vars(ViewerBegin)
    /\ WF_vars(ViewerCheck)
    /\ WF_vars(ViewerPace)
    /\ \A c \in Callers :
           /\ WF_vars(GetPosition(c, 0))
           /\ WF_vars(CloseJoinSim(c))
           /\ WF_vars(CloseJoinViewer(c))

SpecLifeFair == SpecLife /\ FairLife

-----------------------------------------------------------------------------
(* Claims *)

\* the step in which caller c leaves the body of facade operation op
Returns(c, op) ==
    /\ pc[c] = "locked"
    /\ pc'[c] = "idle"
    /\ lastCall'.op = op

\* C1: set_velocity(i, v) on a servo i whose torque is enabled fails and
\* leaves target_velocity of all servos and the timestep unchanged; on a servo
\* whose torque is disabled it succeeds and stores v in target_velocity[i].
C1_SetVelocityPrecondition ==
    [][\A c \in Callers :
          (Returns(c, "set_velocity") /\ lastCall'.servo \in Servos) =>
              IF torque_enabled[lastCall'.servo]
              THEN /\ lastCall'.outcome = "error"
                   /\ target_velocity' = target_velocity
                   /\ timestep' = timestep
              ELSE /\ lastCall'.outcome = "ok"
                   /\ target_velocity'[lastCall'.servo] = lastCall'.arg]_vars

\* a set_velocity on a torque-enabled servo has been rejected
C1_Witness ==
    /\ lastCall.op = "set_velocity"
    /\ lastCall.outcome = "error"
    /\ torque_enabled[lastCall.servo]
    /\ \E s \in Servos : target_velocity[s] # 0

\* C5: the timestep always lies in [TMin, TMax]; an accepted set_velocity with
\* a velocity at or below VMin yields TMax, one at or above VMax yields TMin.
C5_TimestepClamped ==
    /\ [](timestep \in TMin .. TMax)
    /\ [][\A c \in Callers :
            (Returns(c, "set_velocity") /\ lastCall'.outcome = "ok") =>
                /\ lastCall'.arg <= VMin => timestep' = TMax
                /\ lastCall'.arg >= VMax => timestep' = TMin]_vars

\* a velocity below the lower anchor has been accepted and clamped to TMax
C5_Witness ==
    /\ lastCall.op = "set_velocity"
    /\ lastCall.outcome = "ok"
    /\ lastCall.arg < VMin
    /\ timestep = TMax

\* C2: set_position(i, p) on a servo i whose torque is disabled fails and
\* leaves target_position unchanged; on a servo whose torque is enabled it
\* succeeds, stores p in target_position[i] and changes no other field.
C2_SetPositionPrecondition ==
    [][\A c \in Callers :
          (Returns(c, "set_position") /\ lastCall'.servo \in Servos) =>
              IF ~torque_enabled[lastCall'.servo]
              THEN /\ lastCall'.outcome = "error"
                   /\ target_position' = target_position
              ELSE /\ lastCall'.outcome = "ok"
                   /\ target_position' =
                          [target_position EXCEPT
                              ![lastCall'.servo] = lastCall'.arg]
                   /\ UNCHANGED <<torque_enabled, target_velocity, timestep,
                                  qpos, ctrl, running>>]_vars

\* a set_position on a torque-disabled servo has been rejected, with a
\* target stored on another servo
C2_Witness ==
    /\ lastCall.op = "set_position"
    /\ lastCall.outcome = "error"
    /\ ~torque_enabled[lastCall.servo]
    /\ \E s \in Servos : target_position[s] # 0

FacadeOps ==
    {"factory", "reboot", "set_torque", "get_torque", "get_force",
     "set_velocity", "get_velocity", "set_position", "get_position"}

InTick == pcSim \in {"cmd", "mj"}

\* C6: get_torque(i) returns the value last written to servo i by set_torque,
\* factory or reboot (False after construction); no step of the physics loop
\* or of the viewer loop changes a torque flag.
C6_TorqueReadYourWrites ==
    /\ [](torque_enabled = lastTorqueWrite)
    /\ [][\A c \in Callers :
            (Returns(c, "get_torque") /\ lastCall'.servo \in Servos) =>
                /\ lastCall'.outcome = "ok"
                /\ lastCall'.ret = B2I(lastTorqueWrite[lastCall'.servo])]_vars
    /\ [][(pcSim' # pcSim \/ pcView' # pcView) =>
             torque_enabled' = torque_enabled]_vars

\* get_torque has returned True while both loops are cycling
C6_Witness ==
    /\ lastCall.op = "get_torque"
    /\ lastCall.ret = 1
    /\ pcView = "pace"
    /\ pcSim = "mj"

\* C7: _start() with the run flag set changes nothing and raises nothing, no
\* loop thread is ever launched twice, and close() with the run flag clear
\* changes nothing and does not enter the joins.
C7_LifecycleIdempotent ==
    /\ [](launches.sim <= 1 /\ launches.viewer <= 1)
    /\ [][(lastCall' # lastCall /\ lastCall'.op = "_start" /\ running) =>
             /\ lastCall'.outcome = "ok"
             /\ UNCHANGED <<running, pcSim, pcView, viewerOpen, lockOwner, pc,
                            ControlState, qpos, ctrl, launches>>]_vars
    /\ [][~running =>
             \A c \in Callers :
                 pc[c] = "idle" => pc'[c] \in {"idle", "locked"}]_vars
    /\ [][(lastCall' # lastCall /\ lastCall'.op = "close"
                                /\ lastCall'.ret = 0) =>
             /\ ~running
             /\ UNCHANGED <<running, pcSim, pcView, viewerOpen, lockOwner, pc,
                            ControlState, qpos, ctrl, launches>>]_vars

\* _start() has returned normally on a controller whose loops are running
C7_Witness ==
    /\ lastCall.op = "_start"
    /\ lastCall.outcome = "ok"
    /\ running
    /\ pcSim = "mj"
    /\ pcView = "pace"

\* C9: while the physics loop is inside _step (commands being written, or
\* the backend step pending) it holds the lock, no caller is inside the body
\* of a facade operation, no facade operation completes and the control state
\* does not change.
C9_TickAtomic ==
    /\ [](InTick => /\ lockOwner = SimThread
                    /\ \A c \in Callers : pc[c] # "locked")
    /\ [][InTick =>
             /\ UNCHANGED ControlState
             /\ lastCall' # lastCall => lastCall'.op \notin FacadeOps]_vars

\* the backend step is pending with commands that differ from the positions,
\* after a get_position call
C9_Witness ==
    /\ pcSim = "mj"
    /\ ctrl # qpos
    /\ lastCall.op = "get_position"

SimEnded == pcSim \in {"done", "crashed"}

InClose(c) == pc[c] \in {"close_join_sim", "close_join_viewer"}

\* C8: after close() has cleared the run flag the physics loop completes at
\* most one further tick; while the flag stays clear both loops end (a
\* _start() that sets the flag again lets a loop that has not yet polled it
\* go on); every close() returns; the viewer loop ends once the viewer
\* reports that it is no longer running, whatever the run flag.
C8_CooperativeShutdown ==
    /\ [](staleTicks <= 1)
    /\ (~running) ~> (running \/ (SimEnded /\ pcView = "done"))
    /\ \A c \in Callers : InClose(c) ~> (pc[c] = "idle")
    /\ (pcView \in {"check", "pace"} /\ ~viewerOpen) ~> (pcView = "done")

\* close() has returned, both loops have ended, and one tick was completed
\* after the run flag was cleared
C8_Witness ==
    /\ lastCall.op = "close"
    /\ lastCall.ret = 1
    /\ ~running
    /\ pcSim = "done"
    /\ pcView = "done"
    /\ staleTicks = 1

\* the step in which the backend step of a tick returns
TickDone == pcSim = "mj" /\ pcSim' = "check"

\* C3: in every tick the command written for a torque-enabled servo differs
\* from the servo's position by at most target_velocity * timestep.
C3_RateLimit ==
    pcSim = "mj" =>
        \A s \in Servos :
            torque_enabled[s] =>
                Abs(ctrl[s] - qpos[s]) <= target_velocity[s] * timestep

\* C4: with a backend that reaches the commanded position, a tick never
\* increases the distance of a torque-enabled servo with positive velocity to
\* its target, never passes the target, lands on it when the distance is at
\* most target_velocity * timestep and otherwise reduces the distance by just
\* that; if torque, velocity and target stay as they are and the loop does not
\* die, the servo reaches the target and stays there.
C4_Convergence ==
    /\ [][TickDone =>
            \A s \in Servos :
                (torque_enabled[s] /\ target_velocity[s] > 0) =>
                    LET d == target_position[s] - qpos[s]
                        e == target_position[s] - qpos'[s]
                        m == target_velocity[s] * timestep
                    IN  /\ Abs(e) <= Abs(d)
                        /\ d * e >= 0
                        /\ Abs(d) <= m => e = 0
                        /\ Abs(d) > m => Abs(e) = Abs(d) - m]_vars
    /\ \A s \in Servos, p \in PositionsConv :
           <>[](/\ torque_enabled[s]
                /\ target_velocity[s] > 0
                /\ target_position[s] = p
                /\ pcSim # "crashed")
               => <>[](qpos[s] = p)

\* a servo has reached a target away from home, with a target velocity whose
\* step at the current timestep is shorter than the way it has come
C4_Witness ==
    \E s \in Servos :
        /\ torque_enabled[s]
        /\ target_velocity[s] > 0
        /\ target_position[s] # HomePos
        /\ qpos[s] = target_position[s]
        /\ target_velocity[s] * timestep < Abs(target_position[s] - HomePos)

\* C10: no thread has read or written a ControlState field without holding
\* the lock.
C10_LockDiscipline == unlocked = {}

\* C11: when the backend step of a tick has raised and the physics loop is
\* dead, the run flag is clear.
C11_BackendFailureStops == pcSim = "crashed" => ~running

-----------------------------------------------------------------------------
(* Servo indices outside 0 .. NumServos - 1 *)

\* every index from one below the wrapping range to one above the valid range
ServoArgs == (-NumServos - 1) .. NumServos

NextIndex ==
    \/ \E c \in Callers : Acquire(c)
    \/ \E c \in Callers : Facade(c, ServoArgs, Velocities, Positions)

SpecIndex == Init /\ [][NextIndex]_vars

\* C12: a facade operation called with a servo index outside
\* 0 .. NumServos - 1, negative indices included, fails and leaves
\* torque_enabled, target_velocity, target_position and timestep unchanged.
C12_InvalidIndexFails ==
    [][\A c \in Callers :
          (/\ pc[c] = "locked"
           /\ pc'[c] = "idle"
           /\ lastCall'.op \in FacadeOps \ {"get_force", "get_position"}
           /\ lastCall'.servo \notin Servos) =>
              /\ lastCall'.outcome = "error"
              /\ UNCHANGED ControlState]_vars

-----------------------------------------------------------------------------
(* Restart, shutdown and the run flag *)

\* C13: a _start() that finds the run flag clear sets it, raises nothing and
\* launches a physics loop and a viewer loop, which start running.
C13_RestartLaunchesLoops ==
    [][(~running /\ running') =>
          /\ lastCall'.op = "_start"
          /\ lastCall'.outcome = "ok"
          /\ launches' = [sim |-> launches.sim + 1,
                          viewer |-> launches.viewer + 1]
          /\ pcSim' = "check"
          /\ pcView' = "begin"]_vars

\* the lifecycle and the two loops with the torque flags being set
NextShutdown ==
    \/ \E c \in Callers : Acquire(c)
    \/ \E c \in Callers, i \in Servos, b \in BOOLEAN : SetTorque(c, i, b)
    \/ \E c \in Callers : Lifecycle(c)
    \/ SimLoop
    \/ ViewerLoop

SpecShutdown == Init /\ [][NextShutdown]_vars

\* C14: when a close() that found the controller running returns, the torque
\* of every servo is disabled.
C14_CloseDisablesTorque ==
    [][\A c \in Callers :
          (pc[c] = "close_join_viewer" /\ pc'[c] = "idle") =>
              \A s \in Servos : ~torque_enabled'[s]]_vars

-----------------------------------------------------------------------------
(* Blocking on the lock *)

\* operations on servo 0 that return and operations that raise
Contend(c) ==
    \/ \E b \in BOOLEAN : SetTorque(c, 0, b)
    \/ GetForce(c, 0)
    \/ \E p \in Positions : SetPosition(c, 0, p)

\* callers that wait for the lock, call operations, close and start beside
\* the physics loop (the viewer loop never takes the lock)
NextBlock ==
    \/ \E c \in Callers : Wait(c)
    \/ \E c \in Callers : Enter(c)
    \/ \E c \in Callers : Contend(c)
    \/ \E c \in Callers : Lifecycle(c)
    \/ SimLoop

\* every thread that can take a step eventually takes one, a thread waiting
\* for a lock that is released again and again eventually gets it, and the
\* backend step returns or raises
FairBlock ==
    /\ WF_vars(SimCheck)
    /\ WF_vars(SimPaceTick \/ SimPaceSleep)
    /\ SF_vars(SimAcquire)
    /\ WF_vars(SimCommands)
    /\ WF_vars(SimMjStep \/ SimMjStepFail)
    /\ \A c \in Callers :
          /\ SF_vars(Enter(c))
          /\ WF_vars(Contend(c))
          /\ WF_vars(CloseJoinSim(c))
          /\ WF_vars(CloseJoinViewer(c))

SpecBlock == Init /\ [][NextBlock]_vars /\ FairBlock

\* the lock is held exactly by a thread that is inside a with block
LockHeldInBody ==
    /\ lockOwner = SimThread <=> pcSim \in {"cmd", "mj"}
    /\ \A c \in Callers : lockOwner = c <=> pc[c] = "locked"

-----------------------------------------------------------------------------
(* The run flag *)

\* operations on servo 0 that write, read, return and raise
FlagOps(c) ==
    \/ Contend(c)
    \/ GetPosition(c, 0)

\* operations on servo 0, start and close, beside the two loops
NextFlag ==
    \/ \E c \in Callers : Acquire(c)
    \/ \E c \in Callers : FlagOps(c)
    \/ \E c \in Callers : Lifecycle(c)
    \/ SimLoop
    \/ ViewerLoop

\* as FairLife, and the wall clock advances, so the pacing test eventually
\* lets a tick through
FairFlag ==
    /\ FairLife
    /\ SF_vars(SimPaceTick)
    /\ \A c \in Callers : WF_vars(FlagOps(c))

SpecFlag == Init /\ [][NextFlag]_vars /\ FairFlag

\* C16: the run flag is set only by a _start() that finds it clear and cleared
\* only by a close() that finds it set; the physics loop leaves its loop only
\* when it finds the flag clear, and once the viewer loop has ended with the
\* flag set the physics loop goes on entering the backend step until the flag
\* is cleared (or the backend raises).
C16_RunFlagOwnedByLifecycle ==
    /\ [][(~running /\ running') =>
             \E c \in Callers :
                 pc[c] = "idle" /\ pc'[c] = "idle" /\ lastCall'.op = "_start"]_vars
    /\ [][(running /\ ~running') =>
             \E c \in Callers :
                 pc[c] = "idle" /\ pc'[c] = "close_join_sim"]_vars
    /\ [][(pcSim # "done" /\ pcSim' = "done") => ~running]_vars
    /\ (pcView = "done" /\ running /\ pcSim \notin {"done", "crashed"})
           ~> (pcSim = "mj" \/ ~running \/ pcSim = "crashed")

\* the viewer loop has ended by itself, the run flag is set and the physics
\* loop is in the backend step of a tick
C16_Witness ==
    /\ pcView = "done"
    /\ running
    /\ pcSim = "mj"
    /\ lastCall.op # "_start"
    /\ lastCall.op # "close"

-----------------------------------------------------------------------------
(* The shared timestep *)

\* the step in which some caller's set_velocity returns normally
VelocityAccepted ==
    \E c \in Callers :
        Returns(c, "set_velocity") /\ lastCall'.outcome = "ok"

\* C17: the timestep is InitTimestep until a set_velocity is accepted; an
\* accepted set_velocity on any servo makes it the interpolation of that
\* call's velocity and leaves target_velocity of every other servo as it is, so
\* their step bounds follow the new timestep; no other step, a rejected
\* set_velocity included, changes the timestep or a target velocity.
C17_TimestepLastWriter ==
    /\ [](lastCall.op = "none" => timestep = InitTimestep)
    /\ [][IF VelocityAccepted
          THEN /\ timestep' = Interp(lastCall'.arg)
               /\ \A j \in Servos \ {Idx(lastCall'.servo)} :
                     /\ target_velocity'[j] = target_velocity[j]
                     /\ target_velocity'[j] * timestep' =
                            target_velocity[j] * Interp(lastCall'.arg)
          ELSE /\ timestep' = timestep
               /\ target_velocity' = target_velocity]_vars

\* the velocity accepted last, on one servo, has changed the step bound of
\* another servo, whose torque is enabled and whose own velocity maps to a
\* different timestep
C17_Witness ==
    \E j \in Servos :
        /\ lastCall.op = "set_velocity"
        /\ lastCall.outcome = "ok"
        /\ lastCall.servo # j
        /\ torque_enabled[j]
        /\ target_velocity[j] > 0
        /\ timestep = Interp(lastCall.arg)
        /\ timestep # Interp(target_velocity[j])

-----------------------------------------------------------------------------
(* Frame conditions *)

\* the step in which _step has written the commands of a tick
CommandsWritten == pcSim = "cmd" /\ pcSim' = "mj"

\* C18: a tick writes the command of the servos whose torque is enabled and
\* leaves the command of every other servo as it was; commands change in no
\* other step; the backend is stepped once per tick, after the commands, and
\* positions change in no other step; nothing changes torque_enabled,
\* target_velocity, target_position or timestep while a tick is under way.
C18_TickFrame ==
    /\ [][CommandsWritten =>
             /\ \A s \in Servos :
                   ctrl'[s] = IF torque_enabled[s] THEN Command(s) ELSE ctrl[s]
             /\ qpos' = qpos]_vars
    /\ [][ctrl' # ctrl => CommandsWritten]_vars
    /\ [][qpos' # qpos => TickDone]_vars
    /\ [][pcSim' = "mj" => pcSim \in {"cmd", "mj"}]_vars
    /\ [][pcSim = "mj" => pcSim' \in {"mj", "check", "crashed"}]_vars
    /\ [][InTick => UNCHANGED ControlState]_vars

\* in the backend step of a tick: one servo has been commanded away from its
\* position, another, with torque disabled, keeps a command that is not the
\* one its target and velocity would give
C18_Witness ==
    \E s, u \in Servos :
        /\ pcSim = "mj"
        /\ torque_enabled[s]
        /\ ctrl[s] # qpos[s]
        /\ ~torque_enabled[u]
        /\ target_velocity[u] > 0
        /\ ctrl[u] # Command(u)

\* C19: the target velocity of every servo is non-negative, and so is its
\* step bound target_velocity * timestep.
C19_VelocityNonNegative ==
    \A s \in Servos :
        /\ target_velocity[s] >= 0
        /\ target_velocity[s] * timestep >= 0

====
